---- MODULE Spec2Model ----
(***************************************************************************)
(* A model of the open-addressing hash table of hash_table.py (class       *)
(* Hashtable): linear probing, tombstone deletion, growth by _rehash.      *)
(*                                                                         *)
(* Keys are strings, modelled as sequences of character codes (ord(c)).    *)
(* A slot of self.table is either defVal (the empty sentinel, EmptySlot)   *)
(* or the tuple (key, value, live), modelled as <<key, value, live>>.      *)
(* The Python list self.table is modelled as a function on                 *)
(* 0..capacity-1.                                                          *)
(*                                                                         *)
(* The second part models markov.py: class Markov, built on a Hashtable    *)
(* (state 0) or on a Python dict (state 1), and identify_speaker.  A       *)
(* probability is kept as the pair <<numerator, denominator>> the          *)
(* logarithm is taken of.                                                  *)
(***************************************************************************)
EXTENDS Integers, Sequences, FiniteSets, TLC

(* ---------------------------- bounds ----------------------------------- *)

\* Growth is modelled only while the grown capacity stays within this bound.
MaxCapacity == 4

\* The largest capacity the table is constructed with.
MaxInitCapacity == 2

\* Keys: "b" and "aa" (ord("b") = 98, ord("a") = 97).  They share their
\* primary slot for capacity 1, 2, 3 and 4 (slot 0, 0, 2 and 2).
Keys == {<<98>>, <<97, 97>>}

\* Values stored by set; all differ from defVal.
Values == {1, 2}

\* Constructor arguments (capacity, loadfactor as a fraction <<num, den>>,
\* growthFactor) the model is constructed with.
\* The keys and capacities the hash function is examined on: every string of
\* at most MaxKeyLen characters over "a", "b", "z", the empty one included,
\* and every capacity from 1 to MaxHashCapacity.
MaxKeyLen == 3
MaxHashCapacity == 114
HashChars == {97, 98, 122}
HashKeys == UNION {[1..n -> HashChars] : n \in 0..MaxKeyLen}

InitCapacities == 1..MaxInitCapacity
LoadFactors == {<<1, 4>>, <<1, 2>>, <<1, 1>>}
GrowthFactors == {2, 3}

\* Training texts: every string of at most MaxTextLen characters
\* over "a", "b", the empty one included, and one text of 16 characters over
\* "a".."d" whose 32 substrings of length 2 and 3 are all different, so that
\* the Hashtable of a model of order 2 grows while it is filled.
MaxTextLen == 3
TextChars == {97, 98}
ShortTexts == UNION {[1..n -> TextChars] : n \in 0..MaxTextLen}
LongText == <<97, 97, 98, 97, 99, 97, 100, 98, 98, 99, 98, 100, 99, 99, 100, 100>>
Texts == ShortTexts \cup {LongText}

\* Orders a model is constructed with, from -1 (not an order) to MaxOrder.
MaxOrder == 2
Orders == (0 - 1)..MaxOrder

\* Backend selectors passed as state: 0, 1 and one that is neither.
BackendStates == {0, 1, 2}

\* The strings looked up in a model: every string of at most MaxOrder + 1
\* characters over "a".."c", the empty one included.
LookupChars == {97, 98, 99}
LookupStrings == UNION {[1..n -> LookupChars] : n \in 0..(MaxOrder + 1)}

\* log_probability and identify_speaker are called on texts of at most
\* MaxSpeechLen characters.
MaxSpeechLen == 2
Speeches == {text \in ShortTexts : Len(text) <= MaxSpeechLen}

(* ------------------------ program constants ---------------------------- *)

\* markov.py, line 12; Hashtable(HASH_CELLS, 0, 0.5, 2), line 41
HASH_CELLS == 57
MarkovLoadFactor == <<1, 2>>
MarkovGrowthFactor == 2

\* Markov builds Hashtable(HASH_CELLS, 0, 0.5, 2): the default value is 0.
defVal == 0

prime_multiplier == 37

\* A slot holding defVal.  A tuple never compares equal to defVal.
EmptySlot == <<>>

VARIABLES
    capacity,      \* self.capacity
    loadfactor,    \* self.loadfactor, as <<numerator, denominator>>
    growthFactor,  \* self.growthFactor
    table,         \* self.table: [0..capacity-1 -> slot]
    rehashing,     \* self.rehashing
    ref,           \* reference map: last value set per key, NoValue once deleted
    last,          \* the operation performed last, how it ended, the slots it used
    scenario,      \* the calls made so far by the collision scenario
    markov,        \* the Markov objects constructed last, one per backend selector
    result         \* what the last call of log_probability or identify_speaker gave

vars == <<capacity, loadfactor, growthFactor, table, rehashing, ref, last, scenario,
          markov, result>>

\* "no entry" of the reference map
NoValue == defVal

(* ------------------------------ _hash ---------------------------------- *)

\* reduce(lambda hash_code, c: (hash_code*37 + ord(c)) % capacity, key, 0)
RECURSIVE reduce_hash(_, _, _)
reduce_hash(hash_code, key, cap) ==
    IF key = <<>> THEN hash_code
    ELSE reduce_hash((hash_code * prime_multiplier + Head(key)) % cap, Tail(key), cap)

\* Mutant of hash: the fold started from 1 in place of 0.
hash_seed_one(key, cap) == reduce_hash(1, key, cap)

hash(key, cap) == reduce_hash(0, key, cap)

(* ------------------------- slots and queries --------------------------- *)

IsTuple(slot) == slot # EmptySlot
SlotKey(slot) == slot[1]
SlotValue(slot) == slot[2]
SlotLive(slot) == slot[3]

\* the filter of keys(), values(), __len__ and __iter__:
\* val != self.defVal and val[2]
LiveSlot(slot) == IsTuple(slot) /\ SlotLive(slot)

LiveIndices(tbl, cap) == {i \in 0..(cap - 1) : LiveSlot(tbl[i])}

\* __len__: the number of live slots
len(tbl, cap) == Cardinality(LiveIndices(tbl, cap))

\* keys(): the keys of the live slots in table order
RECURSIVE keys_from(_, _, _)
keys_from(tbl, cap, i) ==
    IF i >= cap THEN <<>>
    ELSE IF LiveSlot(tbl[i]) THEN <<SlotKey(tbl[i])>> \o keys_from(tbl, cap, i + 1)
    ELSE keys_from(tbl, cap, i + 1)

keys(tbl, cap) == keys_from(tbl, cap, 0)

\* __contains__: key in self.keys()
contains(tbl, cap, key) ==
    \E n \in 1..Len(keys(tbl, cap)) : keys(tbl, cap)[n] = key

\* values(): the values of the live slots in table order
RECURSIVE values_from(_, _, _)
values_from(tbl, cap, i) ==
    IF i >= cap THEN <<>>
    ELSE IF LiveSlot(tbl[i]) THEN <<SlotValue(tbl[i])>> \o values_from(tbl, cap, i + 1)
    ELSE values_from(tbl, cap, i + 1)

values(tbl, cap) == values_from(tbl, cap, 0)

\* __bool__: False when __len__ gives 0
bool(tbl, cap) == len(tbl, cap) # 0

\* __iter__, run to its end: the (key, value) pairs of the live slots in
\* table order
RECURSIVE iter_from(_, _, _)
iter_from(tbl, cap, i) ==
    IF i >= cap THEN <<>>
    ELSE IF LiveSlot(tbl[i])
         THEN <<<<SlotKey(tbl[i]), SlotValue(tbl[i])>>>> \o iter_from(tbl, cap, i + 1)
    ELSE iter_from(tbl, cap, i + 1)

iter(tbl, cap) == iter_from(tbl, cap, 0)

(* ---------------------------- __getitem__ ------------------------------ *)

\* r, the result of the rest of a scan, once self.table[i] has been read or
\* written as well: touched collects the slot indices a call has used.
Touch(i, r) == [r EXCEPT !.touched = @ \cup {i}]

\* Mutant of get_scan: a tombstone ends the scan like an empty slot.
RECURSIVE get_scan_stops_at_tombstone(_, _, _, _, _)
get_scan_stops_at_tombstone(tbl, cap, key, hash_val, iter_count) ==
    LET hv == IF hash_val >= cap THEN 0 ELSE hash_val
    IN  IF iter_count >= cap
        THEN [kind |-> "loop", value |-> defVal, touched |-> {}, table |-> tbl]
        ELSE IF tbl[hv] = EmptySlot \/ ~tbl[hv][3]
             THEN [kind |-> "default", value |-> defVal, touched |-> {hv}, table |-> tbl]
        ELSE IF tbl[hv][1] = key
             THEN [kind |-> "found", value |-> tbl[hv][2], touched |-> {hv}, table |-> tbl]
        ELSE Touch(hv, get_scan_stops_at_tombstone(tbl, cap, key, hv + 1, iter_count + 1))

\* Mutant of get_scan: a lookup that ends at an empty slot stores the default
\* value under the key there, as a defaultdict does.
RECURSIVE get_scan_inserts_default(_, _, _, _, _)
get_scan_inserts_default(tbl, cap, key, hash_val, iter_count) ==
    LET hv == IF hash_val >= cap THEN 0 ELSE hash_val
    IN  IF iter_count >= cap
        THEN [kind |-> "loop", value |-> defVal, touched |-> {}, table |-> tbl]
        ELSE IF tbl[hv] = EmptySlot
             THEN [kind |-> "default", value |-> defVal, touched |-> {hv},
                   table |-> [tbl EXCEPT ![hv] = <<key, defVal, TRUE>>]]
        ELSE IF tbl[hv][1] = key /\ tbl[hv][3]
             THEN [kind |-> "found", value |-> tbl[hv][2], touched |-> {hv}, table |-> tbl]
        ELSE Touch(hv, get_scan_inserts_default(tbl, cap, key, hv + 1, iter_count + 1))

\* The while loop of __getitem__.  It visits the slots cyclically, so once
\* iter_count reaches capacity without a break or return every slot has been
\* seen and the loop repeats forever: "loop".  No statement of the loop
\* assigns to self.table or to one of its slots: table is the slot array as
\* the loop leaves it.
RECURSIVE get_scan(_, _, _, _, _)
get_scan(tbl, cap, key, hash_val, iter_count) ==
    LET hv == IF hash_val >= cap THEN 0 ELSE hash_val
    IN  IF iter_count >= cap
        THEN [kind |-> "loop", value |-> defVal, touched |-> {}, table |-> tbl]
        ELSE IF tbl[hv] = EmptySlot
             THEN [kind |-> "default", value |-> defVal, touched |-> {hv}, table |-> tbl]
        ELSE IF SlotKey(tbl[hv]) = key /\ SlotLive(tbl[hv])
             THEN [kind |-> "found", value |-> SlotValue(tbl[hv]), touched |-> {hv},
                   table |-> tbl]
        ELSE Touch(hv, get_scan(tbl, cap, key, hv + 1, iter_count + 1))

\* __getitem__: what it returns, the slots it reads and the slot array it
\* leaves
getitem(tbl, cap, key) ==
    LET hash_val == hash(key, cap)
    IN  IF IsTuple(tbl[hash_val]) /\ SlotKey(tbl[hash_val]) = key /\ SlotLive(tbl[hash_val])
        THEN [kind |-> "found", value |-> SlotValue(tbl[hash_val]), touched |-> {hash_val},
              table |-> tbl]
        ELSE Touch(hash_val, get_scan(tbl, cap, key, hash_val, 0))

(* ---------------------------- __setitem__ ------------------------------ *)

Entry(key, value) == <<key, value, TRUE>>

\* The while loop of __setitem__ (lines 147-162).  found is
\* acceptable_loc_found at the end of the iteration; a slot whose key matches
\* is rewritten without setting it, so the scan goes on after an overwrite.
\* raised: the raise of line 149 was reached.  probes: iter_count when the
\* slot was found (capacity when the scan raised).
RECURSIVE set_scan(_, _, _, _, _, _)
set_scan(tbl, cap, key, value, hash_val, iter_count) ==
    IF iter_count >= cap
    THEN [table |-> tbl, raised |-> TRUE, probes |-> iter_count, touched |-> {}]
    ELSE LET hv == IF hash_val >= cap THEN 0 ELSE hash_val
             slot == tbl[hv]
             found == slot = EmptySlot \/ ~SlotLive(slot)
             written == found \/ SlotKey(slot) = key
             tbl2 == IF written THEN [tbl EXCEPT ![hv] = Entry(key, value)] ELSE tbl
         IN  IF found
             THEN [table |-> tbl2, raised |-> FALSE, probes |-> iter_count,
                   touched |-> {hv}]
             ELSE Touch(hv, set_scan(tbl2, cap, key, value, hv + 1, iter_count + 1))

\* Mutant of place: the tuple is always written to the primary slot of the
\* key, whatever that slot holds.
place_primary_only(tbl, cap, key, value) ==
    [table |-> [tbl EXCEPT ![hash(key, cap)] = Entry(key, value)],
     raised |-> FALSE, probes |-> 0, touched |-> {hash(key, cap)}]

\* Lines 139-162 of __setitem__: the placement of (key, value, True) once the
\* growth test of line 137 is behind.
place(tbl, cap, key, value) ==
    LET hash_val == hash(key, cap)
        slot == tbl[hash_val]
    IN  IF slot = EmptySlot \/ ~SlotLive(slot) \/ SlotKey(slot) = key
        THEN [table |-> [tbl EXCEPT ![hash_val] = Entry(key, value)],
              raised |-> FALSE, probes |-> 0, touched |-> {hash_val}]
        ELSE Touch(hash_val, set_scan(tbl, cap, key, value, hash_val, 0))

(* ------------------------------ _rehash -------------------------------- *)

\* filtered_table: the live tuples of the table, in table order
RECURSIVE filtered_from(_, _, _)
filtered_from(tbl, cap, i) ==
    IF i >= cap THEN <<>>
    ELSE IF LiveSlot(tbl[i]) THEN <<tbl[i]>> \o filtered_from(tbl, cap, i + 1)
    ELSE filtered_from(tbl, cap, i + 1)

\* The object's fields as a call works on them, with what the call has done
\* so far: raised (an exception is propagating), grew (_rehash was run),
\* probes (the largest iter_count an insertion scan of the call ended with)
\* and touched (the slot indices used since the table was last created).
Store(cap, tbl, flag) ==
    [capacity |-> cap, table |-> tbl, rehashing |-> flag,
     raised |-> FALSE, grew |-> FALSE, probes |-> 0, touched |-> {}]

\* the store once the placement r has been made in it
placed(st, r) ==
    [st EXCEPT !.table = r.table, !.raised = r.raised,
               !.probes = IF r.probes > st.probes THEN r.probes ELSE st.probes,
               !.touched = @ \cup r.touched]

\* Lines 139-162 run on the store; nothing runs while an exception propagates.
insert(st, key, value) ==
    IF st.raised THEN st ELSE placed(st, place(st.table, st.capacity, key, value))

\* line 79, which an exception of a reinsertion skips
rehash_done(st) == IF st.raised THEN st ELSE [st EXCEPT !.rehashing = FALSE]

\* Mutant of overloaded: the load test made with > in place of >=.
overloaded_strictly(tbl, cap, lf) == len(tbl, cap) * lf[2] > lf[1] * cap

\* line 137: self.__len__() >= self.loadfactor*self.capacity, with the load
\* factor the fraction lf[1]/lf[2]
overloaded(tbl, cap, lf) == len(tbl, cap) * lf[2] >= lf[1] * cap

RECURSIVE setitem(_, _, _, _, _)

\* The for loop of _rehash: self[key] = value, the whole of __setitem__, for
\* every collected tuple, run with self.rehashing set.  An exception of a
\* reinsertion leaves the loop (and _rehash) at once.
RECURSIVE reinsert(_, _, _, _)
reinsert(st, lf, growth, filtered_table) ==
    IF filtered_table = <<>> \/ st.raised THEN st
    ELSE reinsert(setitem(st, lf, growth,
                          Head(filtered_table)[1], Head(filtered_table)[2]),
                  lf, growth, Tail(filtered_table))

\* Mutant of rehash: the capacity is not multiplied (line 74 left out).
rehash_same_capacity(st, lf, growth) ==
    rehash_done(reinsert(
        [st EXCEPT !.rehashing = TRUE, !.grew = TRUE,
                   !.table = [i \in 0..(st.capacity - 1) |-> EmptySlot]],
        lf, growth, filtered_from(st.table, st.capacity, 0)))

\* Mutant of rehash: the live tuples keep their slot numbers in the grown
\* table (no reinsertion under the new capacity).
rehash_keeps_positions(st, lf, growth) ==
    [st EXCEPT !.grew = TRUE,
               !.capacity = st.capacity * growth,
               !.table = [i \in 0..(st.capacity * growth - 1) |->
                            IF i < st.capacity /\ LiveSlot(st.table[i])
                            THEN st.table[i] ELSE EmptySlot]]

\* _rehash: the store after the growth pass
rehash(st, lf, growth) ==
    rehash_done(reinsert(
        [st EXCEPT !.rehashing = TRUE, !.grew = TRUE,
                   !.capacity = st.capacity * growth,
                   !.table = [i \in 0..(st.capacity * growth - 1) |-> EmptySlot]],
        lf, growth, filtered_from(st.table, st.capacity, 0)))

\* Mutant of setitem: the growth test without "not self.rehashing".
setitem_reentrant(st, lf, growth, key, value) ==
    insert(IF overloaded(st.table, st.capacity, lf)
           THEN rehash(st, lf, growth) ELSE st,
           key, value)

\* __setitem__ as a whole
setitem(st, lf, growth, key, value) ==
    insert(IF ~st.rehashing /\ overloaded(st.table, st.capacity, lf)
           THEN rehash(st, lf, growth) ELSE st,
           key, value)

(* ---------------------------- __delitem__ ------------------------------ *)

\* Mutant of Tombstone: the deleted tuple keeps its key but not its value.
Tombstone_drops_value(slot) == <<SlotKey(slot), defVal, FALSE>>

\* Mutant of Tombstone: deletion empties the slot instead of marking it.
Tombstone_clears_slot(slot) == EmptySlot

\* lines 183 and 195: the tuple with its flag turned to False
Tombstone(slot) == <<SlotKey(slot), SlotValue(slot), FALSE>>

\* The while loop of __delitem__.  Like the loop of __getitem__ it has no
\* bound on iter_count: once every slot has been visited without a raise or a
\* break it repeats forever ("loop").
RECURSIVE del_scan(_, _, _, _, _)
del_scan(tbl, cap, key, hash_val, iter_count) ==
    LET hv == IF hash_val >= cap THEN 0 ELSE hash_val
    IN  IF iter_count >= cap THEN [table |-> tbl, outcome |-> "loop", touched |-> {}]
        ELSE IF tbl[hv] = EmptySlot
             THEN [table |-> tbl, outcome |-> "KeyError", touched |-> {hv}]
        ELSE IF SlotKey(tbl[hv]) = key /\ SlotLive(tbl[hv])
             THEN [table |-> [tbl EXCEPT ![hv] = Tombstone(tbl[hv])], outcome |-> "ok",
                   touched |-> {hv}]
        ELSE Touch(hv, del_scan(tbl, cap, key, hv + 1, iter_count + 1))

delitem(tbl, cap, key) ==
    LET hash_val == hash(key, cap)
    IN  IF IsTuple(tbl[hash_val]) /\ SlotKey(tbl[hash_val]) = key /\ SlotLive(tbl[hash_val])
        THEN [table |-> [tbl EXCEPT ![hash_val] = Tombstone(tbl[hash_val])],
              outcome |-> "ok", touched |-> {hash_val}]
        ELSE Touch(hash_val, del_scan(tbl, cap, key, hash_val, 0))

(* ------------------------------ the model ------------------------------ *)

\* markov while no Markov object has been constructed, result while no call
\* of log_probability or identify_speaker has been made
NoModel == [k |-> 0, speech |-> <<>>, object |-> <<>>]
NoResult == [op |-> "none"]

\* Hashtable.__init__
Init ==
    /\ capacity \in InitCapacities
    /\ loadfactor \in LoadFactors
    /\ growthFactor \in GrowthFactors
    /\ table = [i \in 0..(capacity - 1) |-> EmptySlot]
    /\ rehashing = FALSE
    /\ ref = [k \in Keys |-> NoValue]
    /\ last = [op |-> "init", key |-> <<>>, value |-> defVal, outcome |-> "ok",
               grew |-> FALSE, probes |-> 0, touched |-> {}]
    /\ scenario = <<>>
    /\ markov = NoModel
    /\ result = NoResult

\* A call that never returns leaves nothing to do afterwards.
Running == last.outcome # "loop"

\* what a call of __setitem__ that ended with the store r leaves
SetReturns(r, key, value) ==
    /\ capacity' = r.capacity
    /\ table' = r.table
    /\ rehashing' = r.rehashing
    /\ ref' = IF r.raised THEN ref ELSE [ref EXCEPT ![key] = value]
    /\ last' = [op |-> "set", key |-> key, value |-> value,
                outcome |-> IF r.raised THEN "RunTimeError" ELSE "ok",
                grew |-> r.grew, probes |-> r.probes, touched |-> r.touched]

\* table[key] = value
CallSet(key, value) ==
    /\ Running
    /\ (~rehashing /\ overloaded(table, capacity, loadfactor))
          => capacity * growthFactor <= MaxCapacity
    /\ SetReturns(setitem(Store(capacity, table, rehashing), loadfactor, growthFactor,
                          key, value), key, value)
    /\ UNCHANGED <<loadfactor, growthFactor>>

\* what a call of __delitem__ that ended as r leaves
DelReturns(r, key) ==
    /\ table' = r.table
    /\ ref' = IF r.outcome = "ok" THEN [ref EXCEPT ![key] = NoValue] ELSE ref
    /\ last' = [op |-> "delete", key |-> key, value |-> defVal,
                outcome |-> r.outcome, grew |-> FALSE, probes |-> 0,
                touched |-> r.touched]

\* del table[key]
CallDel(key) ==
    /\ Running
    /\ DelReturns(delitem(table, capacity, key), key)
    /\ UNCHANGED <<capacity, loadfactor, growthFactor, rehashing>>

\* what a call of __getitem__ that ended as r leaves
GetReturns(r, key) ==
    /\ table' = r.table
    /\ last' = [op |-> "get", key |-> key, value |-> r.value,
                outcome |-> IF r.kind = "loop" THEN "loop" ELSE "ok",
                grew |-> FALSE, probes |-> 0, touched |-> r.touched]

\* table[key]
CallGet(key) ==
    /\ Running
    /\ GetReturns(getitem(table, capacity, key), key)
    /\ UNCHANGED <<capacity, loadfactor, growthFactor, rehashing, ref>>

\* what a call of keys(), values(), __len__, __bool__, __iter__ or
\* __contains__ leaves: each reads every slot of self.table and capacity
\* and assigns to no field
QueryReturns(op, key, value) ==
    /\ last' = [op |-> op, key |-> key, value |-> value, outcome |-> "ok",
                grew |-> FALSE, probes |-> 0, touched |-> 0..(capacity - 1)]
    /\ UNCHANGED <<capacity, loadfactor, growthFactor, table, rehashing, ref>>

\* table.keys()
CallKeys == Running /\ QueryReturns("keys", <<>>, keys(table, capacity))

\* table.values()
CallValues == Running /\ QueryReturns("values", <<>>, values(table, capacity))

\* len(table)
CallLen == Running /\ QueryReturns("len", <<>>, len(table, capacity))

\* bool(table)
CallBool == Running /\ QueryReturns("bool", <<>>, bool(table, capacity))

\* list(table)
CallIter == Running /\ QueryReturns("iter", <<>>, iter(table, capacity))

\* key in table
CallContains(key) == Running /\ QueryReturns("contains", key, contains(table, capacity, key))

\* Any caller: every call on every key, in any order.
SetItem(key, value) == CallSet(key, value) /\ UNCHANGED <<scenario, markov, result>>

DelItem(key) == CallDel(key) /\ UNCHANGED <<scenario, markov, result>>

GetItem(key) == CallGet(key) /\ UNCHANGED <<scenario, markov, result>>

\* the calls that only ask
Query ==
    /\ \/ CallKeys
       \/ CallValues
       \/ CallLen
       \/ CallBool
       \/ CallIter
       \/ \E key \in Keys : CallContains(key)
    /\ UNCHANGED <<scenario, markov, result>>

Next ==
    \/ \E key \in Keys, value \in Values : SetItem(key, value)
    \/ \E key \in Keys : DelItem(key)
    \/ \E key \in Keys : GetItem(key)
    \/ Query

Spec == Init /\ [][Next]_vars

(* ----------------------- the collision scenario ------------------------ *)

\* The caller of the collision test, on a newly constructed table: insert
\* two different keys that have the same primary slot, delete one of them,
\* insert the deleted key again.
Call(op, key, value) == [op |-> op, key |-> key, value |-> value]

CollisionSet(key, value) ==
    /\ Len(scenario) \in {0, 1, 3}
    /\ Len(scenario) = 1 =>
          /\ key # scenario[1].key
          /\ hash(key, capacity) = hash(scenario[1].key, capacity)
    /\ Len(scenario) = 3 => key = scenario[3].key
    /\ CallSet(key, value)
    /\ scenario' = Append(scenario, Call("set", key, value))
    /\ UNCHANGED <<markov, result>>

CollisionDelete(key) ==
    /\ Len(scenario) = 2
    /\ CallDel(key)
    /\ scenario' = Append(scenario, Call("delete", key, defVal))
    /\ UNCHANGED <<markov, result>>

CollisionNext ==
    \/ \E key \in Keys, value \in Values : CollisionSet(key, value)
    \/ \E key \in Keys : CollisionDelete(key)

CollisionSpec == Init /\ [][CollisionNext]_vars

(* ------------------------------ markov.py ------------------------------ *)

\* A Python slice index on a text: an index below 0 counts from the end, and
\* an index outside the text is clipped to it.
slice_index(text, i) ==
    IF i < 0 THEN (IF i + Len(text) < 0 THEN 0 ELSE i + Len(text))
    ELSE IF i > Len(text) THEN Len(text) ELSE i

\* text[start:stop]
slice(text, start, stop) ==
    IF slice_index(text, start) >= slice_index(text, stop) THEN <<>>
    ELSE SubSeq(text, slice_index(text, start) + 1, slice_index(text, stop))

\* text[start:] and text[:stop]
slice_from(text, start) == slice(text, start, Len(text))
slice_to(text, stop) == slice(text, 0, stop)

\* lines 67 and 103, before the [1:]:
\* [(text[i-1:i+k-1], text[i-1:i+k]) for i in range(text_len) if i+k-1 < text_len]
RECURSIVE unwrapped(_, _, _)
unwrapped(text, k, i) ==
    IF i >= Len(text) THEN <<>>
    ELSE (IF i + k - 1 < Len(text)
          THEN << <<slice(text, i - 1, i + k - 1), slice(text, i - 1, i + k)>> >>
          ELSE <<>>) \o unwrapped(text, k, i + 1)

\* list[1:]
rest(list) == IF list = <<>> THEN <<>> ELSE Tail(list)

\* lines 70-71 and 106-107: one pair for every character of text[-k+1:]
wrapped(text, k) ==
    [n \in 1..Len(slice_from(text, 1 - k)) |->
        LET char_index == n - 1
        IN  <<slice_from(text, 1 - k + char_index) \o slice_to(text, char_index + 1),
              slice_from(text, 1 - k + char_index) \o slice_to(text, char_index + 2)>>]

\* lines 67-71 and 103-107: the list of (k string, k+1 string) pairs of a
\* text that is not empty (text[0] of line 68 raises on an empty one)
k_k1_len_substrings(text, k) ==
    rest(unwrapped(text, k, 0))
        \o << <<slice_from(text, 0 - k), slice_from(text, 0 - k) \o <<text[1]>> >> >>
        \o (IF k > 1 THEN wrapped(text, k) ELSE <<>>)

\* [substr for tup in k_k1_len_substrings for substr in tup]
flattened(pairs) == [n \in 1..(2 * Len(pairs)) |-> pairs[(n + 1) \div 2][2 - (n % 2)]]

\* the order of strings: by character code, a proper prefix first
RECURSIVE less(_, _)
less(s, t) ==
    IF t = <<>> THEN FALSE
    ELSE IF s = <<>> THEN TRUE
    ELSE IF Head(s) # Head(t) THEN Head(s) < Head(t)
    ELSE less(Tail(s), Tail(t))

\* np.unique(..., return_counts = True)[0]: the different strings, sorted
RECURSIVE sorted(_)
sorted(strings) ==
    IF strings = {} THEN <<>>
    ELSE LET least == CHOOSE s \in strings : \A t \in strings \ {s} : less(s, t)
         IN  <<least>> \o sorted(strings \ {least})

\* np.unique(..., return_counts = True)[1], for one of the strings
occurrences(list, string) == Cardinality({n \in 1..Len(list) : list[n] = string})

\* lines 41 and 43: Hashtable(HASH_CELLS, 0, 0.5, 2) or {}
new_table(state) ==
    IF state = 0
    THEN Store(HASH_CELLS, [i \in 0..(HASH_CELLS - 1) |-> EmptySlot], FALSE)
    ELSE <<>>

\* self.table[substring] = count, on the Hashtable (state 0) or the dict
assign(state, tbl, substring, count) ==
    IF state = 0
    THEN setitem(tbl, MarkovLoadFactor, MarkovGrowthFactor, substring, count)
    ELSE [key \in DOMAIN tbl \cup {substring} |->
             IF key = substring THEN count ELSE tbl[key]]

\* an exception of Hashtable.__setitem__ is propagating
raised_in(state, tbl) == state = 0 /\ tbl.raised

\* lines 73-74: the loop over the strings np.unique gave; an exception of an
\* assignment leaves it
RECURSIVE fill(_, _, _, _)
fill(state, tbl, strings, list) ==
    IF strings = <<>> \/ raised_in(state, tbl) THEN tbl
    ELSE fill(state,
              assign(state, tbl, Head(strings), occurrences(list, Head(strings))),
              Tail(strings), list)

\* _gen_table, for a text that is not empty
gen_table(state, k, text) ==
    LET all_substrings == flattened(k_k1_len_substrings(text, k))
    IN  fill(state, new_table(state),
             sorted({all_substrings[n] : n \in 1..Len(all_substrings)}),
             all_substrings)

\* Mutant of alphabet_len: the length of the text in place of the number of
\* different characters.
alphabet_len_of_text(speech) == Len(speech)

\* line 47: len(set(speech))
alphabet_len(speech) == Cardinality({speech[n] : n \in 1..Len(speech)})

\* A Markov object, or the exception its construction raised.
Object(raised, state, k, alphabet, tbl) ==
    [raised |-> raised, state |-> state, k |-> k, alphabet_len |-> alphabet,
     table |-> tbl]

\* the object once _gen_table has left tbl; an exception of the Hashtable
\* leaves __init__
constructed(state, k, alphabet, tbl) ==
    Object(IF raised_in(state, tbl) THEN "RunTimeError" ELSE "none",
           state, k, alphabet, tbl)

\* Markov.__init__
Markov(k, speech, state) ==
    IF state \notin {0, 1} THEN Object("Exception", state, 0, 0, <<>>)
    ELSE IF speech = <<>> THEN Object("IndexError", state, k, 0, <<>>)
    ELSE constructed(state, k, alphabet_len(speech), gen_table(state, k, speech))

\* self.table[key] of line 100: the lookup of the backend, and the table
\* the lookup leaves.  A dict raises KeyError for a key it does not hold and
\* stays as it is.
lookup(model, key) ==
    IF model.state = 0
    THEN LET r == getitem(model.table.table, model.table.capacity, key)
         IN  [kind |-> r.kind, value |-> r.value, touched |-> r.touched,
              table |-> [model.table EXCEPT !.table = r.table]]
    ELSE IF key \in DOMAIN model.table
         THEN [kind |-> "found", value |-> model.table[key], touched |-> {},
               table |-> model.table]
         ELSE [kind |-> "KeyError", value |-> 0, touched |-> {}, table |-> model.table]

\* _access_values: the count of the key, 0 on KeyError
access_values(model, key) == lookup(model, key).value

\* A call of log_probability under way: the object as the lookups made so
\* far have left it, the count the last lookup returned, the numerator of
\* the term being computed and the terms computed.
Scoring(model) ==
    [raised |-> "none", model |-> model, value |-> 0, numerator |-> 0, terms |-> <<>>]

\* _access_values(key) as the next lookup of the call
accessed(sc, key) ==
    LET r == lookup(sc.model, key)
    IN  [sc EXCEPT !.raised = IF r.kind = "loop" THEN "loop" ELSE @,
                   !.model = [@ EXCEPT !.table = r.table],
                   !.value = r.value]

\* _access_values(str_tuple[1]) + 1
numerator(sc) == [sc EXCEPT !.numerator = sc.value + 1]

\* (...) / (_access_values(str_tuple[0]) + self.alphabet_len)
term(sc) ==
    [sc EXCEPT !.terms = Append(@, <<sc.numerator, sc.value + sc.model.alphabet_len>>)]

\* line 108: the list comprehension, one str_tuple after the other, the
\* k+1 string of each looked up before its k string
RECURSIVE scored(_, _)
scored(sc, pairs) ==
    IF pairs = <<>> \/ sc.raised # "none" THEN sc
    ELSE scored(term(accessed(numerator(accessed(sc, Head(pairs)[2])), Head(pairs)[1])),
                Tail(pairs))

\* log_probability, run on the object model: what it raised, the terms the
\* logarithms are taken and summed of, each the pair <<numerator,
\* denominator>> of line 108, in the order of the sum, and the object as the
\* call leaves it
log_probability_on(model, text) ==
    IF text = <<>> THEN [Scoring(model) EXCEPT !.raised = "IndexError"]
    ELSE scored(Scoring(model), k_k1_len_substrings(text, model.k))

\* log_probability: what the caller gets
log_probability(model, text) ==
    [raised |-> log_probability_on(model, text).raised,
     terms |-> IF log_probability_on(model, text).raised = "none"
               THEN log_probability_on(model, text).terms ELSE <<>>]

\* the product of the numerators (m = 1) or denominators (m = 2) of terms
RECURSIVE product(_, _)
product(terms, m) ==
    IF terms = <<>> THEN 1 ELSE Head(terms)[m] * product(Tail(terms), m)

\* Mutant of greater: a >= b in place of a > b.
greater_or_equal(a, b) ==
    IF a = b THEN {TRUE}
    ELSE IF product(a, 1) * product(b, 2) > product(b, 1) * product(a, 2) THEN {TRUE}
    ELSE IF product(a, 1) * product(b, 2) < product(b, 1) * product(a, 2) THEN {FALSE}
    ELSE {TRUE, FALSE}

\* line 135, a > b, for two scores given by their terms (both sums are
\* divided by the same len(unknown_speech)): what the comparison can give.
\* Equal lists of terms give equal floats; terms with different products of
\* fractions give sums that differ by far more than rounding; sums of
\* different terms with the same product may be rounded either way.
greater(a, b) ==
    IF a = b THEN {FALSE}
    ELSE IF product(a, 1) * product(b, 2) > product(b, 1) * product(a, 2) THEN {TRUE}
    ELSE IF product(a, 1) * product(b, 2) < product(b, 1) * product(a, 2) THEN {FALSE}
    ELSE {TRUE, FALSE}

\* identify_speaker when an exception leaves it
Raises(exception) == {[raised |-> exception, a |-> <<>>, b |-> <<>>, verdict |-> ""]}

\* lines 135-138: the results identify_speaker can give for the two
\* log_probability results a and b
verdicts(a, b) ==
    IF a.raised # "none" THEN Raises(a.raised)
    ELSE IF b.raised # "none" THEN Raises(b.raised)
    ELSE {[raised |-> "none", a |-> a.terms, b |-> b.terms,
           verdict |-> IF a_greater THEN "A" ELSE "B"] :
             a_greater \in greater(a.terms, b.terms)}

\* lines 133-138, once both models are constructed
norm_log_likelihoods(speaker_a_model, speaker_b_model, unknown_speech) ==
    IF speaker_a_model.raised # "none" THEN Raises(speaker_a_model.raised)
    ELSE IF speaker_b_model.raised # "none" THEN Raises(speaker_b_model.raised)
    ELSE verdicts(log_probability(speaker_a_model, unknown_speech),
                  log_probability(speaker_b_model, unknown_speech))

\* identify_speaker: the results it can give
identify_speaker(speaker_a, speaker_b, unknown_speech, order, state) ==
    norm_log_likelihoods(Markov(order, speaker_a, state),
                         Markov(order, speaker_b, state), unknown_speech)

\* No model has been constructed, no call has been made.
MarkovInit ==
    /\ capacity = HASH_CELLS
    /\ loadfactor = MarkovLoadFactor
    /\ growthFactor = MarkovGrowthFactor
    /\ table = [i \in 0..(capacity - 1) |-> EmptySlot]
    /\ rehashing = FALSE
    /\ ref = [k \in Keys |-> NoValue]
    /\ last = [op |-> "init", key |-> <<>>, value |-> defVal, outcome |-> "ok",
               grew |-> FALSE, probes |-> 0, touched |-> {}]
    /\ scenario = <<>>
    /\ markov = NoModel
    /\ result = NoResult

\* Markov(k, speech, state), for every backend selector on the same k and
\* speech, in a run that has made no call yet.
Construct ==
    /\ markov = NoModel /\ result = NoResult
    /\ \E k \in Orders, speech \in Texts :
          markov' = [k |-> k, speech |-> speech,
                     object |-> [state \in BackendStates |-> Markov(k, speech, state)]]
    /\ UNCHANGED <<capacity, loadfactor, growthFactor, table, rehashing, ref, last,
                   scenario, result>>

\* model.log_probability(text) on the object of either backend
LogProbability ==
    /\ markov # NoModel
    /\ \A state \in {0, 1} : markov.object[state].raised = "none"
    /\ \E text \in Speeches :
          /\ result' = [op |-> "log_probability", text |-> text,
                        value |-> [state \in {0, 1} |->
                                     log_probability(markov.object[state], text)]]
          /\ markov' = [markov EXCEPT !.object =
                          [state \in BackendStates |->
                             IF state \in {0, 1}
                             THEN log_probability_on(@[state], text).model
                             ELSE @[state]]]
    /\ UNCHANGED <<capacity, loadfactor, growthFactor, table, rehashing, ref, last,
                   scenario>>

\* identify_speaker(speaker_a, speaker_b, unknown_speech, order, state).  It
\* makes its own two models, keeps neither and reads nothing else, so one
\* call in a run that has made no call yet shows all it can do.
IdentifySpeaker ==
    /\ markov = NoModel /\ result = NoResult
    /\ \E speaker_a \in Speeches, speaker_b \in Speeches, unknown_speech \in Speeches,
          order \in 1..MaxOrder, state \in {0, 1} :
          \E value \in identify_speaker(speaker_a, speaker_b, unknown_speech,
                                        order, state) :
              result' = [op |-> "identify_speaker", speaker_a |-> speaker_a,
                         speaker_b |-> speaker_b, unknown_speech |-> unknown_speech,
                         order |-> order, state |-> state, value |-> value]
    /\ UNCHANGED <<capacity, loadfactor, growthFactor, table, rehashing, ref, last,
                   scenario, markov>>

MarkovNext == Construct \/ LogProbability \/ IdentifySpeaker

MarkovSpec == MarkovInit /\ [][MarkovNext]_vars

(* --------------------------- either kind of run ------------------------ *)

\* A run of the program either calls a Hashtable of its own and builds no
\* model, or builds models and scores texts and calls no Hashtable but the
\* one inside a model.
ProgramInit == Init \/ MarkovInit

HashtableRun == markov = NoModel /\ result = NoResult /\ capacity # HASH_CELLS

ProgramNext ==
    \/ HashtableRun /\ (\E key \in Keys, value \in Values : SetItem(key, value))
    \/ HashtableRun /\ (\E key \in Keys : DelItem(key))
    \/ HashtableRun /\ (\E key \in Keys : GetItem(key))
    \/ HashtableRun /\ Query
    \/ ~HashtableRun /\ Construct
    \/ ~HashtableRun /\ LogProbability
    \/ ~HashtableRun /\ IdentifySpeaker

ProgramSpec == ProgramInit /\ [][ProgramNext]_vars

(* ------------------------- the table, observed ------------------------- *)

\* table[key] in the current state
Get(key) == getitem(table, capacity, key)

\* len(table) in the current state
size == len(table, capacity)

\* key in table, in the current state
Contains(key) == contains(table, capacity, key)

\* the last operation was a call of that kind that returned normally
Returned(op) == last.op = op /\ last.outcome = "ok"

(* ------------------------------- claims -------------------------------- *)

\* C1 (as claimed): round trip.  After any sequence of set, delete and get,
\* every key whose most recent mutating operation was set(key, v) is looked
\* up with value v: the table agrees with the reference map.
C1_RoundTrip ==
    \A key \in Keys :
        ref[key] # NoValue => (Get(key).kind = "found" /\ Get(key).value = ref[key])

\* C2 (as claimed): tombstone semantics.  Right after delete(key) returned,
\* get(key) returns the default value and contains(key) is false; right after
\* a set(key, v2) returned, get(key) returns v2.
C2_TombstoneSemantics ==
    /\ Returned("delete") =>
          /\ Get(last.key).kind # "loop"
          /\ Get(last.key).value = defVal
          /\ ~Contains(last.key)
    /\ Returned("set") =>
          /\ Get(last.key).kind = "found"
          /\ Get(last.key).value = last.value

\* C3 (as claimed): key uniqueness.  No key is held by two live slots, so
\* keys() lists no key twice, and size() is the number of distinct keys set
\* and not deleted since.
C3_KeyUniqueness ==
    /\ \A i, j \in LiveIndices(table, capacity) :
          SlotKey(table[i]) = SlotKey(table[j]) => i = j
    /\ \A m, n \in 1..Len(keys(table, capacity)) :
          keys(table, capacity)[m] = keys(table, capacity)[n] => m = n
    /\ size = Cardinality({key \in Keys : ref[key] # NoValue})

C5_GetTerminates ==
    \A key \in Keys : Get(key).kind \in {"found", "default"}

\* C6 (as claimed): delete of a key that has no live slot raises KeyError and
\* leaves table and capacity (hence size) unchanged; delete of a key that has
\* a live slot does not raise.
C6_DeleteNotFound ==
    [][last'.op = "delete" =>
          IF Contains(last'.key)
          THEN last'.outcome = "ok"
          ELSE last'.outcome = "KeyError" /\ table' = table /\ capacity' = capacity]_vars

\* C7 (as claimed): growth preserves contents.  When a set call ran a growth
\* pass, every key that was live before the call, other than the key being
\* set, is looked up afterwards with the value get returned before the call.
C7_GrowthPreservesContents ==
    [][(last'.op = "set" /\ last'.outcome = "ok" /\ last'.grew) =>
          \A key \in Keys \ {last'.key} :
              Contains(key) =>
                  /\ getitem(table', capacity', key).kind = getitem(table, capacity, key).kind
                  /\ getitem(table', capacity', key).value
                        = getitem(table, capacity, key).value]_vars

\* C8: set never raises the "table completely full" error, and every
\* insertion scan of a set call, those of the reinsertions of its growth pass
\* included, finds its slot with iter_count below capacity.
C8_SetNeverFull ==
    last.op = "set" => (last.outcome = "ok" /\ last.probes < capacity)

\* C8 witness: a set call returned after an insertion scan that found its
\* slot at the last probe the bound allows (iter_count = capacity - 1) in a
\* table of more than two slots.
C8_Witness ==
    Returned("set") /\ capacity > 2 /\ last.probes = capacity - 1

\* C9: contains agrees with lookup.  For every key, key is in keys() exactly
\* when get finds a live slot holding the key.
C9_ContainsAgreesWithGet ==
    \A key \in Keys : Contains(key) <=> Get(key).kind = "found"

\* C9 witness: one key is live in a slot reached by probing past a tombstone
\* that sits in its primary slot, while the other key is not in keys().
C9_Witness ==
    \E key \in Keys :
        /\ Contains(key)
        /\ IsTuple(table[hash(key, capacity)])
        /\ ~SlotLive(table[hash(key, capacity)])
        /\ \E other \in Keys \ {key} : ~Contains(other)

\* C10: collision correctness, on a newly constructed table.  For two
\* different keys a and b with the same primary slot: after set(a, va) and
\* set(b, vb), get returns va for a and vb for b; delete of either one
\* returns normally, takes that key out of keys() and leaves the other looked
\* up with its value; set of the deleted key again leaves both looked up with
\* their latest values.
C10_CollisionCorrectness ==
    LET a == scenario[1]
        b == scenario[2]
        Holds(call, value) ==
            Get(call.key).kind = "found" /\ Get(call.key).value = value
    IN  /\ Len(scenario) >= 1 => last.outcome = "ok"
        /\ Len(scenario) = 2 => Holds(a, a.value) /\ Holds(b, b.value)
        /\ Len(scenario) = 3 =>
              /\ ~Contains(scenario[3].key)
              /\ \A call \in {a, b} :
                    call.key # scenario[3].key => Holds(call, call.value)
        /\ Len(scenario) = 4 =>
              /\ Holds(scenario[4], scenario[4].value)
              /\ \A call \in {a, b} :
                    call.key # scenario[4].key => Holds(call, call.value)

\* C10 witness: the scenario has run to its end, the second key was placed
\* by probing past the first, and the re-inserted key took its tombstone.
C10_Witness ==
    /\ Len(scenario) = 4
    /\ last.outcome = "ok" /\ ~last.grew
    /\ Contains(scenario[1].key) /\ Contains(scenario[2].key)
    /\ scenario[4].value # scenario[1].value
    /\ scenario[4].value # scenario[2].value

\* C16 (as claimed): overwrite in place.  When set(key, v) returns without a
\* growth pass for a key that had a live slot, one slot that held the key
\* has become (key, v, live), every other slot is as it was, and size() is
\* the same as before the call, wherever the key sat.
C16_OverwriteInPlace ==
    [][(last'.op = "set" /\ last'.outcome = "ok" /\ ~last'.grew
            /\ Contains(last'.key)) =>
          /\ \E i \in LiveIndices(table, capacity) :
                /\ SlotKey(table[i]) = last'.key
                /\ table' = [table EXCEPT ![i] = Entry(last'.key, last'.value)]
          /\ len(table', capacity') = size]_vars

\* the slots a scan for the key of slot i visits before it reaches slot i:
\* from the primary slot of the key, cyclically
ProbePath(tbl, cap, i) ==
    LET h == hash(SlotKey(tbl[i]), cap)
    IN  {(h + d) % cap : d \in 0..(((i - h + cap) % cap) - 1)}

\* C17: probe-path invariant.  In every reachable state, hashes taken
\* against the current capacity, no slot on the probe path from the primary
\* slot of a live slot's key up to that slot is empty; so a lookup, which
\* stops at the first empty slot, does not return the default for a key that
\* has a live slot.
C17_ProbePathInvariant ==
    /\ \A i \in LiveIndices(table, capacity) :
          \A j \in ProbePath(table, capacity, i) : table[j] # EmptySlot
    /\ \A key \in Keys : Contains(key) => Get(key).kind # "default"

\* C17 witness: a live slot whose probe path holds a tombstone, in a table
\* that has been grown and still has an empty slot.
C17_Witness ==
    /\ capacity > MaxInitCapacity
    /\ \E e \in 0..(capacity - 1) : table[e] = EmptySlot
    /\ \E i \in LiveIndices(table, capacity) :
          \E j \in ProbePath(table, capacity, i) : ~SlotLive(table[j])

\* C18: growth happens at most once per set and is not re-entrant.  A set
\* call that finds size() >= loadfactor * capacity with no growth in progress
\* multiplies capacity by growthFactor exactly once, whatever the load the
\* reinsertions of its growth pass meet; any other set call leaves capacity
\* as it was; rehashing is false again when a set returns; get and delete
\* never change capacity or rehashing.
C18_GrowthOnce ==
    [][/\ last'.op = "set" =>
             /\ last'.grew <=> (~rehashing /\ overloaded(table, capacity, loadfactor))
             /\ capacity' = IF last'.grew THEN capacity * growthFactor ELSE capacity
             /\ last'.outcome = "ok" => rehashing' = FALSE
       /\ last'.op \in {"get", "delete"} =>
             capacity' = capacity /\ rehashing' = rehashing]_vars

\* C18 witness: a set call returned from a growth pass whose last
\* reinsertion met a table at or above the threshold (at least size() - 2
\* tuples were in the grown table by then).
C18_Witness ==
    /\ Returned("set") /\ last.grew
    /\ (size - 2) * loadfactor[2] >= loadfactor[1] * capacity

\* C19: deletion frame.  A delete(key) that returns changes exactly one slot,
\* a live slot of the key, and in it only the live flag (true to false), the
\* key and value kept; capacity, every other slot and the rehashing flag are
\* unchanged, and size() decreases by exactly one.
C19_DeletionFrame ==
    [][(last'.op = "delete" /\ last'.outcome = "ok") =>
          /\ \E i \in LiveIndices(table, capacity) :
                /\ SlotKey(table[i]) = last'.key
                /\ table' = [table EXCEPT
                               ![i] = <<SlotKey(table[i]), SlotValue(table[i]), FALSE>>]
          /\ capacity' = capacity
          /\ rehashing' = rehashing
          /\ len(table', capacity') = size - 1]_vars

\* C19 witness: a delete returned with another entry still live, and every
\* tombstone of its key, the one it made included, lies in a slot reached by
\* probing.
C19_Witness ==
    /\ Returned("delete")
    /\ size >= 1
    /\ \A i \in 0..(capacity - 1) :
          (IsTuple(table[i]) /\ ~SlotLive(table[i]) /\ SlotKey(table[i]) = last.key)
              => i # hash(last.key, capacity)

\* the polynomial of the key in 37, not reduced:
\* ord(c1)*37^(n-1) + ... + ord(cn), from seed 0
RECURSIVE polynomial(_, _)
polynomial(value, key) ==
    IF key = <<>> THEN value
    ELSE polynomial(value * prime_multiplier + Head(key), Tail(key))

\* C20: slot indices stay in range.  For every key, the empty string
\* included, and every capacity >= 1 the hash lies in 0..capacity-1 and is
\* the unreduced polynomial taken mod capacity; in every reachable state the
\* slot array has exactly capacity slots and every slot index the last get,
\* set or delete read or wrote lies in 0..capacity-1.  (The hash of a key
\* does not depend on the state: it is examined once, in the initial
\* states.)
C20_IndicesInRange ==
    /\ last.op = "init" =>
          \A key \in HashKeys, cap \in 1..MaxHashCapacity :
              /\ hash(key, cap) \in 0..(cap - 1)
              /\ hash(key, cap) = polynomial(0, key) % cap
    /\ DOMAIN table = 0..(capacity - 1)
    /\ last.touched \subseteq 0..(capacity - 1)

\* C20 witness: a call on a key whose primary slot is not slot 0 used the
\* last slot and then, wrapped around, slot 0, in a table of three or more
\* slots.
C20_Witness ==
    /\ capacity >= 3
    /\ last.op \in {"get", "set", "delete"}
    /\ hash(last.key, capacity) # 0
    /\ {0, capacity - 1} \subseteq last.touched

(* --------------------------- claims, markov.py -------------------------- *)

\* a model of either backend has been constructed from markov.k and
\* markov.speech
Built == markov # NoModel /\ \A state \in {0, 1} : markov.object[state].raised = "none"

\* the call made last was log_probability and it returned
Scored ==
    /\ result.op = "log_probability"
    /\ \A state \in {0, 1} : result.value[state].raised = "none"

\* C11: backend equivalence.  For the same order and training text the model
\* on the Hashtable (state 0) and the model on the dict (state 1) give the
\* same count for every lookup string, 0 for an absent one, and
\* log_probability gives the same for both, for every text.
C11_BackendEquivalence ==
    /\ Built =>
          \A string \in LookupStrings \cup DOMAIN markov.object[1].table :
              /\ lookup(markov.object[0], string).kind # "loop"
              /\ access_values(markov.object[0], string)
                    = access_values(markov.object[1], string)
              /\ string \notin DOMAIN markov.object[1].table =>
                    access_values(markov.object[0], string) = 0
    /\ result.op = "log_probability" => result.value[0] = result.value[1]

\* C11 witness: log_probability returned on models whose Hashtable has grown
\* while it was filled and holds a key away from its primary slot; the text
\* scored has a string the table holds and one it does not hold.
C11_Witness ==
    /\ Scored
    /\ LET h == markov.object[0].table
       IN  /\ h.capacity > HASH_CELLS
           /\ \E i \in LiveIndices(h.table, h.capacity) :
                 hash(SlotKey(h.table[i]), h.capacity) # i
    /\ \E n, m \in 1..Len(result.value[0].terms) :
          result.value[0].terms[n][1] = 1 /\ result.value[0].terms[m][1] > 1

\* the circular substring of text of the given length that starts at
\* position i (from 0)
circular(text, i, length) ==
    [j \in 1..length |-> text[((i + j - 1) % Len(text)) + 1]]

\* the number of positions of text whose circular substring of the length of
\* string is string
positions(text, string) ==
    Cardinality({i \in 0..(Len(text) - 1) : circular(text, i, Len(string)) = string})

\* C12 (as claimed): circular enumeration.  For every order k >= 1 and every
\* training text that is not empty, also one of k or fewer characters,
\* construction enumerates exactly one pair per character position, the
\* circular substrings of length k and k+1 that start there, and the
\* frequency table holds exactly these strings, each with the number of
\* positions at which it starts.
C12_CircularEnumeration ==
    (Built /\ markov.k >= 1) =>
        LET text == markov.speech
            k == markov.k
            pairs == k_k1_len_substrings(text, k)
            expected == [n \in 1..Len(text) |->
                           <<circular(text, n - 1, k), circular(text, n - 1, k + 1)>>]
        IN  /\ Len(pairs) = Len(text)
            /\ \A n \in 1..Len(text) :
                  Cardinality({m \in 1..Len(pairs) : pairs[m] = expected[n]})
                     = Cardinality({m \in 1..Len(text) : expected[m] = expected[n]})
            /\ DOMAIN markov.object[1].table
                  = {expected[n][m] : n \in 1..Len(text), m \in 1..2}
            /\ \A state \in {0, 1}, string \in DOMAIN markov.object[1].table :
                  access_values(markov.object[state], string) = positions(text, string)

\* the call made last was identify_speaker and it returned
Identified == result.op = "identify_speaker" /\ result.value.raised = "none"

\* C13: verdict rule and ties.  identify_speaker returns "A" only when the
\* score of A is above the score of B (the product of A's fractions is not
\* below that of B's, and the terms differ) and "B" only when it is not
\* above; when both speakers' texts are the same string, both scores are sums
\* of the same terms and the verdict is "B".
C13_VerdictAndTies ==
    Identified =>
        LET a == result.value.a
            b == result.value.b
        IN  /\ result.value.verdict \in {"A", "B"}
            /\ result.value.verdict = "A" =>
                  /\ a # b
                  /\ product(a, 1) * product(b, 2) >= product(b, 1) * product(a, 2)
            /\ result.value.verdict = "B" =>
                  product(a, 1) * product(b, 2) <= product(b, 1) * product(a, 2)
            /\ result.speaker_a = result.speaker_b =>
                  a = b /\ result.value.verdict = "B"

\* C13 witness: identify_speaker returned for two equal speaker texts, on
\* the Hashtable backend, with an unknown text of two or more characters
\* that has a string neither model holds.
C13_Witness ==
    /\ Identified
    /\ result.speaker_a = result.speaker_b
    /\ result.state = 0
    /\ Len(result.unknown_speech) >= 2
    /\ \E n \in 1..Len(result.value.a) : result.value.a[n][1] = 1

\* C14 (as claimed): configuration errors.  Constructing a Markov model with
\* a backend selector other than 0 and 1, with an order k <= 0 or with an
\* empty training text raises an exception and leaves no model.
C14_ConfigurationErrors ==
    markov # NoModel =>
        \A state \in BackendStates :
            (state \notin {0, 1} \/ markov.k <= 0 \/ markov.speech = <<>>) =>
                markov.object[state].raised # "none"

\* the text is one or more repetitions of the character
repeats(text, char) == text # <<>> /\ \A n \in 1..Len(text) : text[n] = char

\* C15: smoothing formula and boundary case.  log_probability has one term
\* per enumerated pair of the scored text, the fraction
\* (count(k+1 string) + 1) / (count(k string) + alphabet size), where count is
\* the count the frequency table holds, 0 for an absent string, and the
\* alphabet size is the number of different characters of the training text;
\* for a training text of one character repeated n times and k = 1, scoring
\* a text of that character gives one term per character, each
\* (n + 1) / (n + 1), so every logarithm is log(1).
C15_Smoothing ==
    Scored =>
        \A state \in {0, 1} :
            LET terms == result.value[state].terms
                pairs == k_k1_len_substrings(result.text, markov.k)
                dict == markov.object[1].table
                count(string) == IF string \in DOMAIN dict THEN dict[string] ELSE 0
                alphabet == Cardinality({markov.speech[n] : n \in 1..Len(markov.speech)})
            IN  /\ Len(terms) = Len(pairs)
                /\ \A n \in 1..Len(terms) :
                      terms[n] = <<count(pairs[n][2]) + 1, count(pairs[n][1]) + alphabet>>
                /\ (markov.k = 1 /\ repeats(markov.speech, result.text[1])
                        /\ repeats(result.text, result.text[1])) =>
                      /\ Len(terms) = Len(result.text)
                      /\ \A n \in 1..Len(terms) :
                            terms[n] = <<Len(markov.speech) + 1, Len(markov.speech) + 1>>

\* C15 witness: a model of order 1 trained on one character repeated three
\* or more times has scored a text of two or more of that character.
C15_Witness ==
    /\ Scored
    /\ markov.k = 1
    /\ Len(markov.speech) >= 3 /\ repeats(markov.speech, result.text[1])
    /\ Len(result.text) >= 2 /\ repeats(result.text, result.text[1])

(* ------------------------ claims, both classes ------------------------- *)

\* the calls of a Hashtable that only ask
Queries == {"get", "contains", "keys", "values", "len", "bool", "iter"}

\* the k and k+1 strings log_probability looks up for text in a model of
\* order k
looked_up(text, k) ==
    {k_k1_len_substrings(text, k)[n][m] :
        n \in 1..Len(k_k1_len_substrings(text, k)), m \in 1..2}

\* C21: queries are read-only.  A call of get, contains, keys, values, len,
\* the emptiness test or iteration leaves the slot array, capacity and
\* rehashing flag as they were.  A call of log_probability leaves the
\* frequency table, the order and the alphabet size of the model as they
\* were on either backend, a lookup of an absent substring creating no
\* entry, and the same call made again on the model it leaves gives the
\* result it gave.
C21_QueriesReadOnly ==
    [][/\ last'.op \in Queries =>
             table' = table /\ capacity' = capacity /\ rehashing' = rehashing
       /\ result'.op = "log_probability" =>
             \A state \in {0, 1} :
                 /\ markov'.object[state].table = markov.object[state].table
                 /\ markov'.object[state].k = markov.object[state].k
                 /\ markov'.object[state].alphabet_len = markov.object[state].alphabet_len
                 /\ log_probability(markov'.object[state], result'.text)
                       = result'.value[state]]_vars

\* C21 witness: log_probability returned on a model whose Hashtable has
\* grown, for a text with a substring the model does not hold, and the
\* lookup of that substring read more than one slot of the Hashtable before
\* it ended at an empty one.
C21_Witness ==
    /\ Scored
    /\ markov.object[0].table.capacity > HASH_CELLS
    /\ \E string \in looked_up(result.text, markov.k) :
          /\ string \notin DOMAIN markov.object[1].table
          /\ lookup(markov.object[0], string).kind = "default"
          /\ Cardinality(lookup(markov.object[0], string).touched) > 1

====
